---- MODULE Spec2Model ----
(***************************************************************************)
(* Model of the ESP32 GPIO driver of src/gpio_drivers.c.                   *)
(*                                                                         *)
(* The driver's own state is the static flag isr_service_installed, the    *)
(* static pointer s_gpio_instance and the gpio_t objects of the            *)
(* application.  gpio_init_impl is modelled statement by statement (one    *)
(* action per access to the shared statics or per platform call), so that  *)
(* calls of several tasks and the interrupt context interleave as they can *)
(* on the device.  The other entry points are one platform call each and   *)
(* are one action each.                                                    *)
(*                                                                         *)
(* The ESP-IDF primitives the driver calls (gpio_config, gpio_set_level,   *)
(* gpio_get_level, gpio_isr_handler_add, gpio_install_isr_service,         *)
(* gpio_intr_enable/disable) are modelled by their documented behaviour:   *)
(*   - gpio_config sets direction, pull-up and trigger type, and enables   *)
(*     the pin's interrupt iff the trigger type is not GPIO_INTR_DISABLE;  *)
(*     it fails with ESP_ERR_INVALID_ARG for output mode on an input-only  *)
(*     pad (GPIO34..39);                                                   *)
(*   - gpio_get_level returns 0 for a pad whose input path is not enabled  *)
(*     (GPIO_MODE_OUTPUT enables the output path only);                    *)
(*   - gpio_set_level fails with ESP_ERR_INVALID_ARG on an input-only pad; *)
(*   - gpio_isr_handler_add fails with ESP_ERR_INVALID_STATE while the ISR *)
(*     service is not installed, else stores (handler, arg) for the pin    *)
(*     and enables the pin's interrupt;                                    *)
(*   - gpio_install_isr_service fails with ESP_ERR_INVALID_STATE when the  *)
(*     service is already installed;                                       *)
(*   - ESP_ERROR_CHECK aborts the program on any result but ESP_OK.        *)
(***************************************************************************)
EXTENDS Naturals, Sequences, FiniteSets

(* ------------------------------ bounds -------------------------------- *)

\* Number of calls of gpio_init_impl the application makes.
MaxInits == 3
\* Number of tasks that may call into the driver in the concurrent specification.
NTasks == 2

(* -------------------------- program constants ------------------------- *)

D4 == 4
D34 == 34
GPIO_STATE_LOW == 0
GPIO_STATE_HIGH == 1

NULL == "NULL"
ESP_OK == "ESP_OK"
ESP_ERR_INVALID_ARG == "ESP_ERR_INVALID_ARG"
ESP_ERR_INVALID_STATE == "ESP_ERR_INVALID_STATE"

GPIO_MODE_DISABLE == "GPIO_MODE_DISABLE"
GPIO_MODE_INPUT == "GPIO_MODE_INPUT"
GPIO_MODE_OUTPUT == "GPIO_MODE_OUTPUT"
GPIO_INTR_DISABLE == "GPIO_INTR_DISABLE"
GPIO_INTR_NEGEDGE == "GPIO_INTR_NEGEDGE"

\* One gpio_t object per pin in use.
Pins == {D4, D34}
Objs == {"d4", "d34"}
PinOf(o) == IF o = "d4" THEN D4 ELSE D34

States == {GPIO_STATE_LOW, GPIO_STATE_HIGH}
Handlers == {"C1", "C2"}
HandlerArgs == {"A1"}
Tasks == 1..NTasks
MainTask == 1

\* GPIO34..39 have no output driver.
InputOnly(p) == p >= 34

\* A gpio_t the application has not filled in yet.
Blank(o) ==
  [pin |-> PinOf(o), _act_state |-> GPIO_STATE_LOW, _mode |-> GPIO_MODE_DISABLE,
   isr_handler |-> NULL, isr_handler_arg |-> NULL, get_state |-> NULL, set_state |-> NULL]

\* The values of a gpio_t the application may hand to gpio_init_impl.
GpioObjects(o) ==
  {[pin |-> PinOf(o), _act_state |-> s, _mode |-> GPIO_MODE_OUTPUT,
    isr_handler |-> NULL, isr_handler_arg |-> NULL,
    get_state |-> NULL, set_state |-> NULL] : s \in States}
  \cup
  {[pin |-> PinOf(o), _act_state |-> GPIO_STATE_LOW, _mode |-> GPIO_MODE_INPUT,
    isr_handler |-> h, isr_handler_arg |-> a,
    get_state |-> NULL, set_state |-> NULL] : h \in Handlers, a \in HandlerArgs}
  \cup
  {[pin |-> PinOf(o), _act_state |-> GPIO_STATE_LOW, _mode |-> m,
    isr_handler |-> NULL, isr_handler_arg |-> NULL,
    get_state |-> NULL, set_state |-> NULL] : m \in {GPIO_MODE_INPUT, GPIO_MODE_DISABLE}}

(* ------------------------------- state -------------------------------- *)

VARIABLES
  isr_service_installed,  \* static bool isr_service_installed
  s_gpio_instance,        \* static gpio_t *s_gpio_instance
  gpio,                   \* the gpio_t objects
  ninits,                 \* the calls of gpio_init_impl made so far
  pc,                     \* where each task is in gpio_init_impl
  self,                   \* parameter self of gpio_init_impl, per task
  arg_pin,                \* parameter pin of gpio_set_config_input/output, per task
  arg_handler,            \* parameter isr_handler of gpio_set_config_input, per task
  arg_handler_arg,        \* parameter isr_handler_arg of gpio_set_config_input, per task
  pad,                    \* platform: per pin direction, pull-up, trigger, mask, output latch
  isr_func,               \* platform: per pin the handler and argument of gpio_isr_handler_add
  service,                \* platform: the ISR service is installed
  installCalls,           \* platform: number of calls of gpio_install_isr_service
  abort_at,               \* the ESP_ERROR_CHECK that aborted the program, or "none"
  edges,                  \* the latest two falling edges, in order, each with the pin
                          \* and the handler and argument the ISR service called for it
  ret                     \* the most recent call that returned: the entry point, the
                          \* object, and the value returned

vars == <<isr_service_installed, s_gpio_instance, gpio, ninits, pc, self, arg_pin, arg_handler,
          arg_handler_arg, pad, isr_func, service, installCalls, abort_at, edges, ret>>

prog == <<isr_service_installed, s_gpio_instance, gpio>>
args == <<ninits, self, arg_pin, arg_handler, arg_handler_arg>>
plat == <<pad, isr_func, service, installCalls>>

Running == abort_at = "none"

Init ==
  /\ isr_service_installed = FALSE
  /\ s_gpio_instance = NULL
  /\ gpio = [o \in Objs |-> Blank(o)]
  /\ ninits = 0
  /\ pc = [t \in Tasks |-> "idle"]
  /\ self = [t \in Tasks |-> NULL]
  /\ arg_pin = [t \in Tasks |-> D4]
  /\ arg_handler = [t \in Tasks |-> NULL]
  /\ arg_handler_arg = [t \in Tasks |-> NULL]
  /\ pad = [p \in Pins |-> [dir |-> GPIO_MODE_DISABLE, pull_up |-> FALSE,
                            intr_type |-> GPIO_INTR_DISABLE, intr_en |-> FALSE,
                            out |-> GPIO_STATE_LOW]]
  /\ isr_func = [p \in Pins |-> [fn |-> NULL, arg |-> NULL]]
  /\ service = FALSE
  /\ installCalls = 0
  /\ abort_at = "none"
  /\ edges = <<>>
  /\ ret = [op |-> "none", obj |-> NULL, val |-> "void"]

(* ------------------------- platform primitives ------------------------ *)

\* gpio_config(&io_conf) for one pin: the result, and the pad afterwards.
gpio_config_ret(p, mode) ==
  IF mode = GPIO_MODE_OUTPUT /\ InputOnly(p) THEN ESP_ERR_INVALID_ARG ELSE ESP_OK

gpio_config_pad(pd, mode, pull_up, intr) ==
  [pd EXCEPT !.dir = mode, !.pull_up = pull_up, !.intr_type = intr,
             !.intr_en = (intr # GPIO_INTR_DISABLE)]

\* gpio_set_level(p, s): the result, and the pad afterwards.
gpio_set_level_ret(p) == IF InputOnly(p) THEN ESP_ERR_INVALID_ARG ELSE ESP_OK

gpio_set_level_pad(pd, p, s) == IF InputOnly(p) THEN pd ELSE [pd EXCEPT !.out = s]

\* gpio_get_level(p): the levels the call can return.  A pad in GPIO_MODE_OUTPUT
\* has its input path disabled and reads 0; any other pad reads the level the
\* outside world drives on the line.
gpio_get_level(p) == IF pad[p].dir = GPIO_MODE_OUTPUT THEN {GPIO_STATE_LOW} ELSE States

\* The pin's edge interrupt is armed: a falling edge raises it.
Armed(p) ==
  /\ pad[p].dir = GPIO_MODE_INPUT
  /\ pad[p].intr_type = GPIO_INTR_NEGEDGE
  /\ pad[p].intr_en

Invert(s) == IF s = GPIO_STATE_LOW THEN GPIO_STATE_HIGH ELSE GPIO_STATE_LOW


(* ---------------------------- gpio_init_impl -------------------------- *)

\* ESP_ERROR_CHECK(x) with x != ESP_OK: abort(); nothing of the program runs on.
Abort(t, call) ==
  /\ abort_at' = call
  /\ pc' = [pc EXCEPT ![t] = "aborted"]

\* The locals of a call of gpio_init_impl after it has returned or aborted.
NoArgs(f, t) == [f EXCEPT ![t] = NULL]

\* The application fills in the object and calls gpio_init_impl on it;
\* line 82: s_gpio_instance = self.
InitCall(t, o, v) ==
  /\ Running /\ pc[t] = "idle"
  /\ ninits < MaxInits
  /\ ninits' = ninits + 1
  /\ gpio' = [gpio EXCEPT ![o] = [v EXCEPT !.get_state = gpio[o].get_state,
                                           !.set_state = gpio[o].set_state]]
  /\ self' = [self EXCEPT ![t] = o]
  /\ s_gpio_instance' = o
  /\ pc' = [pc EXCEPT ![t] = "L83"]
  /\ UNCHANGED <<isr_service_installed, arg_pin, arg_handler, arg_handler_arg,
                 plat, abort_at, edges, ret>>

\* Lines 83-84: the object s_gpio_instance points at gets its methods.
BindMethods(t) ==
  /\ Running /\ pc[t] = "L83"
  /\ gpio' = [gpio EXCEPT ![s_gpio_instance].get_state = "gpio_read",
                          ![s_gpio_instance].set_state = "gpio_write"]
  /\ pc' = [pc EXCEPT ![t] = "L87"]
  /\ UNCHANGED <<isr_service_installed, s_gpio_instance, args, plat, abort_at, edges, ret>>

\* Line 87: switch (s_gpio_instance->_mode).
SwitchMode(t) ==
  /\ Running /\ pc[t] = "L87"
  /\ pc' = [pc EXCEPT ![t] =
              CASE gpio[s_gpio_instance]._mode = GPIO_MODE_INPUT -> "L91"
                [] gpio[s_gpio_instance]._mode = GPIO_MODE_OUTPUT -> "L97"
                [] OTHER -> "L108"]
  /\ UNCHANGED <<prog, args, plat, abort_at, edges, ret>>

\* Lines 91-92: gpio_set_config_input(s_gpio_instance->pin,
\* s_gpio_instance->isr_handler, NULL) is entered with its arguments evaluated.
CallSetConfigInput(t) ==
  /\ Running /\ pc[t] = "L91"
  /\ arg_pin' = [arg_pin EXCEPT ![t] = gpio[s_gpio_instance].pin]
  /\ arg_handler' = [arg_handler EXCEPT ![t] = gpio[s_gpio_instance].isr_handler]
  /\ arg_handler_arg' = [arg_handler_arg EXCEPT ![t] = NULL]
  /\ pc' = [pc EXCEPT ![t] = "L50"]
  /\ UNCHANGED <<prog, ninits, self, plat, abort_at, edges, ret>>

\* Lines 44-51: gpio_config of the pin as input, pull-up on, falling-edge trigger.
ConfigInput(t) ==
  /\ Running /\ pc[t] = "L50"
  /\ IF gpio_config_ret(arg_pin[t], GPIO_MODE_INPUT) = ESP_OK
       THEN /\ pad' = [pad EXCEPT ![arg_pin[t]] =
                         gpio_config_pad(@, GPIO_MODE_INPUT, TRUE, GPIO_INTR_NEGEDGE)]
            /\ pc' = [pc EXCEPT ![t] = "L53"]
            /\ UNCHANGED abort_at
       ELSE /\ Abort(t, "gpio_config")
            /\ UNCHANGED pad
  /\ UNCHANGED <<prog, args, isr_func, service, installCalls, edges, ret>>

\* Lines 53-54: no handler, gpio_set_config_input returns.
NoHandlerReturn(t) ==
  /\ Running /\ pc[t] = "L53"
  /\ arg_handler[t] = NULL
  /\ pc' = [pc EXCEPT ![t] = "L108"]
  /\ UNCHANGED <<prog, args, plat, abort_at, edges, ret>>

\* gpio_isr_handler_add(p, fn, arg) by task t.
IsrHandlerAddOn(t, p, fn, arg) ==
  /\ Running /\ pc[t] = "L53"
  /\ arg_handler[t] # NULL
  /\ IF service
       THEN /\ isr_func' = [isr_func EXCEPT ![p] = [fn |-> fn, arg |-> arg]]
            /\ pad' = [pad EXCEPT ![p].intr_en = TRUE]
            /\ pc' = [pc EXCEPT ![t] = "L108"]
            /\ UNCHANGED abort_at
       ELSE /\ Abort(t, "gpio_isr_handler_add")
            /\ UNCHANGED <<isr_func, pad>>
  /\ UNCHANGED <<prog, args, service, installCalls, edges, ret>>

\* Line 56 registering the handler under another pin than the one configured.
IsrHandlerAdd_OtherPin(t) ==
  IsrHandlerAddOn(t, CHOOSE q \in Pins : q # arg_pin[t], arg_handler[t], arg_handler_arg[t])

\* Lines 56-59: ESP_ERROR_CHECK(gpio_isr_handler_add(pin, isr_handler, isr_handler_arg)).
IsrHandlerAdd(t) == IsrHandlerAddOn(t, arg_pin[t], arg_handler[t], arg_handler_arg[t])

\* Line 97: gpio_set_config_output(s_gpio_instance->pin) is entered.
CallSetConfigOutput(t) ==
  /\ Running /\ pc[t] = "L97"
  /\ arg_pin' = [arg_pin EXCEPT ![t] = gpio[s_gpio_instance].pin]
  /\ pc' = [pc EXCEPT ![t] = "L34"]
  /\ UNCHANGED <<prog, ninits, self, arg_handler, arg_handler_arg, plat, abort_at, edges, ret>>

\* Lines 28-38: gpio_config of the pin as output, no pulls, no trigger.
ConfigOutput(t) ==
  /\ Running /\ pc[t] = "L34"
  /\ IF gpio_config_ret(arg_pin[t], GPIO_MODE_OUTPUT) = ESP_OK
       THEN /\ pad' = [pad EXCEPT ![arg_pin[t]] =
                         gpio_config_pad(@, GPIO_MODE_OUTPUT, FALSE, GPIO_INTR_DISABLE)]
            /\ pc' = [pc EXCEPT ![t] = "L98"]
            /\ UNCHANGED abort_at
       ELSE /\ Abort(t, "gpio_config")
            /\ UNCHANGED pad
  /\ UNCHANGED <<prog, args, isr_func, service, installCalls, edges, ret>>

\* Line 98: gpio_write(s_gpio_instance, s_gpio_instance->_act_state).
InitialWrite(t) ==
  /\ Running /\ pc[t] = "L98"
  /\ pad' = [pad EXCEPT ![gpio[s_gpio_instance].pin] =
               gpio_set_level_pad(@, gpio[s_gpio_instance].pin,
                                  gpio[s_gpio_instance]._act_state)]
  /\ pc' = [pc EXCEPT ![t] = "L108"]
  /\ UNCHANGED <<prog, args, isr_func, service, installCalls, abort_at, edges, ret>>

Returned(op, o, v) == [op |-> op, obj |-> o, val |-> v]

\* gpio_init_impl returns to its caller.
InitReturn(t) ==
  /\ pc' = [pc EXCEPT ![t] = "idle"]
  /\ ret' = Returned("gpio_init_impl", self[t], "void")
  /\ self' = NoArgs(self, t)
  /\ arg_pin' = [arg_pin EXCEPT ![t] = D4]
  /\ arg_handler' = NoArgs(arg_handler, t)
  /\ arg_handler_arg' = NoArgs(arg_handler_arg, t)

\* Lines 108, 113-115: the flag is set, the service is not installed again.
AlreadyInstalled(t) ==
  /\ Running /\ pc[t] = "L108"
  /\ isr_service_installed
  /\ InitReturn(t)
  /\ UNCHANGED <<prog, ninits, plat, abort_at, edges>>

\* Line 108: the flag is clear, the install branch is taken.
NotInstalled(t) ==
  /\ Running /\ pc[t] = "L108"
  /\ ~isr_service_installed
  /\ pc' = [pc EXCEPT ![t] = "L110"]
  /\ UNCHANGED <<prog, args, plat, abort_at, edges, ret>>

\* Line 110: ESP_ERROR_CHECK(gpio_install_isr_service(GPIO_ISR_SERVICE_DEFAULT_FLAGS)).
InstallIsrService(t) ==
  /\ Running /\ pc[t] = "L110"
  /\ installCalls' = installCalls + 1
  /\ IF ~service
       THEN /\ service' = TRUE
            /\ pc' = [pc EXCEPT ![t] = "L111"]
            /\ UNCHANGED abort_at
       ELSE /\ Abort(t, "gpio_install_isr_service")
            /\ UNCHANGED service
  /\ UNCHANGED <<prog, args, pad, isr_func, edges, ret>>

\* Line 111 with the assignment left out: the flag stays clear.
SetInstalled_FlagNotSet(t) ==
  /\ Running /\ pc[t] = "L111"
  /\ InitReturn(t)
  /\ UNCHANGED <<prog, ninits, plat, abort_at, edges>>

\* Line 111: isr_service_installed = true, and the return.
SetInstalled(t) ==
  /\ Running /\ pc[t] = "L111"
  /\ isr_service_installed' = TRUE
  /\ InitReturn(t)
  /\ UNCHANGED <<s_gpio_instance, gpio, ninits, plat, abort_at, edges>>

(* ----------------------- the other entry points ----------------------- *)

\* Lines 62-66: gpio_write drives the pin and returns ESP_OK whatever
\* gpio_set_level returned.
gpio_write(t, o, s) ==
  /\ Running /\ pc[t] = "idle"
  /\ pad' = [pad EXCEPT ![gpio[o].pin] = gpio_set_level_pad(@, gpio[o].pin, s)]
  /\ ret' = Returned("gpio_write", o, ESP_OK)
  /\ UNCHANGED <<prog, pc, args, isr_func, service, installCalls, abort_at, edges>>

\* Lines 68-71: gpio_read returns gpio_get_level of the pin.
gpio_read(t, o) ==
  /\ Running /\ pc[t] = "idle"
  /\ \E l \in gpio_get_level(gpio[o].pin) : ret' = Returned("gpio_read", o, l)
  /\ UNCHANGED <<prog, pc, args, plat, abort_at, edges>>

\* Line 76 inverting the object's _act_state instead of the state read.
ToggleTarget_Commanded(o, l) == Invert(gpio[o]._act_state)

\* Line 76: the state gpio_toggle writes, having read l.
ToggleTarget(o, l) == Invert(l)

\* Lines 73-77: gpio_toggle reads the pin and writes the other state.
gpio_toggle(t, o) ==
  /\ Running /\ pc[t] = "idle"
  /\ \E l \in gpio_get_level(gpio[o].pin) :
       pad' = [pad EXCEPT ![gpio[o].pin] =
                 gpio_set_level_pad(@, gpio[o].pin, ToggleTarget(o, l))]
  /\ ret' = Returned("gpio_toggle", o, "void")
  /\ UNCHANGED <<prog, pc, args, isr_func, service, installCalls, abort_at, edges>>

\* Line 119 calling gpio_intr_enable where gpio_intr_disable is meant.
gpio_disable_isr_Enables(t, o) ==
  /\ Running /\ pc[t] = "idle"
  /\ pad' = [pad EXCEPT ![gpio[o].pin].intr_en = TRUE]
  /\ ret' = Returned("gpio_disable_isr", o, ESP_OK)
  /\ UNCHANGED <<prog, pc, args, isr_func, service, installCalls, abort_at, edges>>

\* Lines 117-120: gpio_disable_isr masks the pin's interrupt.
gpio_disable_isr(t, o) ==
  /\ Running /\ pc[t] = "idle"
  /\ pad' = [pad EXCEPT ![gpio[o].pin].intr_en = FALSE]
  /\ ret' = Returned("gpio_disable_isr", o, ESP_OK)
  /\ UNCHANGED <<prog, pc, args, isr_func, service, installCalls, abort_at, edges>>

\* Line 124 removing the pin's handler as well as unmasking the pin.
gpio_enable_isr_Unregisters(t, o) ==
  /\ Running /\ pc[t] = "idle"
  /\ pad' = [pad EXCEPT ![gpio[o].pin].intr_en = TRUE]
  /\ isr_func' = [isr_func EXCEPT ![gpio[o].pin] = [fn |-> NULL, arg |-> NULL]]
  /\ ret' = Returned("gpio_enable_isr", o, ESP_OK)
  /\ UNCHANGED <<prog, pc, args, service, installCalls, abort_at, edges>>

\* Lines 122-125: gpio_enable_isr unmasks the pin's interrupt.
gpio_enable_isr(t, o) ==
  /\ Running /\ pc[t] = "idle"
  /\ pad' = [pad EXCEPT ![gpio[o].pin].intr_en = TRUE]
  /\ ret' = Returned("gpio_enable_isr", o, ESP_OK)
  /\ UNCHANGED <<prog, pc, args, isr_func, service, installCalls, abort_at, edges>>

(* ------------------------- the interrupt context ---------------------- *)

\* What the ISR service calls for an interrupt of pin p: the handler registered
\* for p with its registered argument, if there is one.
Dispatch(p) ==
  IF service /\ isr_func[p].fn # NULL
    THEN [pin |-> p, fn |-> isr_func[p].fn, arg |-> isr_func[p].arg]
    ELSE [pin |-> p, fn |-> NULL, arg |-> NULL]

\* A falling edge nothing is called for.
NoDispatch(p) == [pin |-> p, fn |-> NULL, arg |-> NULL]

LatestTwo(q) == IF Len(q) > 2 THEN Tail(q) ELSE q

\* The outside world pulls the line of an input pin from high to low (a pad
\* whose input path is off sees nothing of it).  An armed pin raises its
\* interrupt and the ISR service dispatches it, in the interrupt context, at
\* whatever point the tasks are.
FallingEdge(p) ==
  /\ Running
  /\ pad[p].dir = GPIO_MODE_INPUT
  /\ edges' = LatestTwo(Append(edges, IF Armed(p) THEN Dispatch(p) ELSE NoDispatch(p)))
  /\ UNCHANGED <<prog, pc, args, plat, abort_at, ret>>

(* ---------------------------- specifications ------------------------- *)

\* The steps of a call of gpio_init_impl by task t.
ConfigStep(t) ==
  \/ \E o \in Objs : \E v \in GpioObjects(o) : InitCall(t, o, v)
  \/ BindMethods(t)
  \/ SwitchMode(t)
  \/ CallSetConfigInput(t)
  \/ ConfigInput(t)
  \/ NoHandlerReturn(t)
  \/ IsrHandlerAdd(t)
  \/ CallSetConfigOutput(t)
  \/ ConfigOutput(t)
  \/ InitialWrite(t)
  \/ AlreadyInstalled(t)
  \/ NotInstalled(t)
  \/ InstallIsrService(t)
  \/ SetInstalled(t)

\* The calls of the other entry points by task t.
ApiStep(t) ==
  \/ \E o \in Objs, s \in States : gpio_write(t, o, s)
  \/ \E o \in Objs : gpio_read(t, o)
  \/ \E o \in Objs : gpio_toggle(t, o)
  \/ \E o \in Objs : gpio_disable_isr(t, o)
  \/ \E o \in Objs : gpio_enable_isr(t, o)

Interrupt == \E p \in Pins : FallingEdge(p)

\* One application context calls the driver; interrupts arrive at any point.
Next == ConfigStep(MainTask) \/ ApiStep(MainTask) \/ Interrupt

Spec == Init /\ [][Next]_vars

\* Several tasks configure pins, their steps interleaved.
NextConc == (\E t \in Tasks : ConfigStep(t)) \/ Interrupt

SpecConc == Init /\ [][NextConc]_vars

(* ------------------------------ properties --------------------------- *)

\* No call of the driver is in progress and the program has not aborted.
Quiet == Running /\ \A t \in Tasks : pc[t] = "idle"

\* The latest call of gpio_init_impl on o has returned and configured it as output.
OutputPin(o) ==
  /\ Quiet
  /\ gpio[o]._mode = GPIO_MODE_OUTPUT
  /\ pad[gpio[o].pin].dir = GPIO_MODE_OUTPUT

\* The latest call of gpio_init_impl on o has returned and configured it as
\* input with a handler.
CallbackPin(o) ==
  /\ Quiet
  /\ gpio[o]._mode = GPIO_MODE_INPUT
  /\ gpio[o].isr_handler # NULL

\* The falling edge a step has just recorded.
NewEdge == edges'[Len(edges')]

\* C1: over any sequence of gpio_init_impl calls from one context,
\* gpio_install_isr_service is called at most once: the first call installs the
\* service and sets the flag, every later call of gpio_init_impl skips the
\* install, and the program never aborts on an install attempt.
C1_InstallAtMostOnce ==
  /\ installCalls <= 1
  /\ abort_at # "gpio_install_isr_service"
  /\ isr_service_installed => (service /\ installCalls = 1)

\* Two calls of gpio_init_impl have returned and the service was installed once.
C1_Witness ==
  /\ Quiet
  /\ ninits >= 2
  /\ ret.op = "gpio_init_impl"
  /\ isr_service_installed
  /\ installCalls = 1

\* C2: when calls of gpio_init_impl by several tasks interleave,
\* gpio_install_isr_service is still called once in total: the test of the
\* flag (line 108) and the install (line 110) of one task exclude the others'.
C2_InstallExactlyOnceConcurrent == installCalls <= 1

\* C3: while gpio_init_impl configures an input pin that has a handler, the
\* pin's falling-edge interrupt is not armed before the service is installed
\* and the handler is registered for the pin.
C3_RegisteredBeforeArmed ==
  \A t \in Tasks :
    (pc[t] \in {"L50", "L53"} /\ arg_handler[t] # NULL /\ Armed(arg_pin[t]))
      => (service /\ isr_func[arg_pin[t]].fn = arg_handler[t])

\* C4: once gpio_init_impl has configured an input pin with handler C and
\* argument A, a falling edge on the armed pin calls C once, with argument A.
C4_HandlerGetsObjectArg ==
  [][\A o \in Objs :
       (CallbackPin(o) /\ Armed(gpio[o].pin) /\ FallingEdge(gpio[o].pin))
         => (/\ NewEdge.fn = gpio[o].isr_handler
             /\ NewEdge.arg = gpio[o].isr_handler_arg)]_vars

\* A step that may set the interrupt enable of pin p: gpio_enable_isr on an
\* object of the pin, or gpio_init_impl configuring the pin.
UnmaskStep(p) ==
  \/ \E t \in Tasks, o \in Objs : gpio[o].pin = p /\ gpio_enable_isr(t, o)
  \/ \E t \in Tasks : arg_pin[t] = p /\ (ConfigInput(t) \/ IsrHandlerAdd(t))

C6_NoCrossDispatch ==
  [][\A o \in Objs :
       ((\A x \in Objs : CallbackPin(x)) /\ FallingEdge(gpio[o].pin))
         => (/\ NewEdge.pin = gpio[o].pin
             /\ NewEdge.fn \in {NULL, gpio[o].isr_handler})]_vars

\* Both pins have handlers, different ones, and the latest two falling edges,
\* one on each pin, called each pin's own handler.
C6_Witness ==
  /\ \A x \in Objs : CallbackPin(x)
  /\ gpio["d4"].isr_handler # gpio["d34"].isr_handler
  /\ edges = <<[pin |-> D34, fn |-> gpio["d34"].isr_handler, arg |-> NULL],
               [pin |-> D4, fn |-> gpio["d4"].isr_handler, arg |-> NULL]>>

\* C7: for an output pin and each state s, a gpio_read right after
\* gpio_write(pin, s) returns s.
C7_WriteReadRoundTrip ==
  [][\A o \in Objs, s \in States :
       (OutputPin(o) /\ \E t \in Tasks : gpio_write(t, o, s))
         => (gpio_get_level(gpio[o].pin))' = {s}]_vars

\* C8: for an output pin, _act_state is the state of the latest gpio_write on
\* the pin (the state the output latch holds), or the initial state written by
\* gpio_init_impl when there was none.
C8_ActStateIsLatestWrite ==
  \A o \in Objs : OutputPin(o) => gpio[o]._act_state = pad[gpio[o].pin].out

C10_ToggleInvertsActStateField ==
  [][\A o \in Objs :
       (OutputPin(o) /\ \E t \in Tasks : gpio_toggle(t, o))
         => gpio'[o]._act_state = Invert(gpio[o]._act_state)]_vars

\* gpio_init_impl has just returned from configuring o as output.
ConfiguredOutput(o) ==
  /\ OutputPin(o)
  /\ ret = Returned("gpio_init_impl", o, "void")

\* C11: right after gpio_init_impl has returned on an output pin, gpio_read of
\* the pin returns the initial state the object declared (_act_state), for
\* either initial value.
C11_ReadAfterConfigureIsInitial ==
  \A o \in Objs :
    ConfiguredOutput(o) => gpio_get_level(gpio[o].pin) = {gpio[o]._act_state}

\* The call that has just returned reported an error to its caller.
ErrorReturned == ret'.val \notin {ESP_OK, "void"}

\* C12: gpio_write or gpio_toggle on a pin whose mode is not output, and
\* gpio_enable_isr or gpio_disable_isr on a pin whose mode is not input,
\* returns an error and makes no platform call: the pads stay as they were.
C12_WrongModeRejected ==
  [][\A o \in Objs :
       /\ (/\ gpio[o]._mode # GPIO_MODE_OUTPUT
           /\ \E t \in Tasks : gpio_toggle(t, o) \/ \E s \in States : gpio_write(t, o, s))
            => (ErrorReturned /\ pad' = pad)
       /\ (/\ gpio[o]._mode # GPIO_MODE_INPUT
           /\ \E t \in Tasks : gpio_enable_isr(t, o) \/ gpio_disable_isr(t, o))
            => (ErrorReturned /\ pad' = pad)]_vars

\* C13: gpio_init_impl on an object whose _mode is neither GPIO_MODE_INPUT nor
\* GPIO_MODE_OUTPUT reports an error to its caller; it does not return as a
\* call that configured the pin does.
C13_InvalidModeReported ==
  [][\A t \in Tasks :
       (/\ self[t] # NULL
        /\ gpio[self[t]]._mode \notin {GPIO_MODE_INPUT, GPIO_MODE_OUTPUT}
        /\ AlreadyInstalled(t) \/ SetInstalled(t))
         => ErrorReturned]_vars

\* The platform call task t is about to make in gpio_init_impl returns an error.
BackendFails(t) ==
  \/ pc[t] = "L34" /\ gpio_config_ret(arg_pin[t], GPIO_MODE_OUTPUT) # ESP_OK
  \/ pc[t] = "L50" /\ gpio_config_ret(arg_pin[t], GPIO_MODE_INPUT) # ESP_OK
  \/ pc[t] = "L53" /\ arg_handler[t] # NULL /\ ~service
  \/ pc[t] = "L98" /\ gpio_set_level_ret(gpio[s_gpio_instance].pin) # ESP_OK
  \/ pc[t] = "L110" /\ service

\* C14: when a platform call made by gpio_init_impl returns an error,
\* gpio_init_impl stops and returns the error to its caller: it does not go on
\* with the remaining steps and the program is not aborted.
C14_PlatformFailureReturned ==
  [][\A t \in Tasks :
       (BackendFails(t) /\ pc'[t] # pc[t])
         => (abort_at' = "none" /\ pc'[t] = "idle" /\ ErrorReturned)]_vars

\* C15: when gpio_set_level reports an error, gpio_write returns that error
\* to its caller, and so does gpio_toggle, which calls gpio_write.
C15_WriteErrorSurfaced ==
  [][\A o \in Objs, t \in Tasks :
       /\ (/\ gpio_set_level_ret(gpio[o].pin) # ESP_OK
           /\ \E s \in States : gpio_write(t, o, s))
            => ret'.val = gpio_set_level_ret(gpio[o].pin)
       /\ (/\ gpio_set_level_ret(gpio[o].pin) # ESP_OK
           /\ gpio_toggle(t, o))
            => ret'.val = gpio_set_level_ret(gpio[o].pin)]_vars

\* C16: gpio_install_isr_service is called only by a gpio_init_impl that
\* configures an input pin with a handler: calls that configure output pins
\* or input pins without a handler leave the service uninstalled.
C16_InstallOnlyForCallbackInput ==
  [][\A t \in Tasks :
       InstallIsrService(t)
         => (/\ gpio[self[t]]._mode = GPIO_MODE_INPUT
             /\ gpio[self[t]].isr_handler # NULL)]_vars

\* C17: once a handler is registered with the ISR service for a pin, a further
\* gpio_init_impl on that pin is refused: the handler and argument registered
\* for the pin stay as they were and the pin is not configured anew.
C17_NoSilentReplace ==
  [][/\ \A p \in Pins : isr_func[p].fn # NULL => isr_func'[p] = isr_func[p]
     /\ \A t \in Tasks :
          (pc[t] \in {"L34", "L50"} /\ isr_func[arg_pin[t]].fn # NULL) => pad' = pad]_vars

\* The pads but for the interrupt enable of pin p.
PadsButMask(pd, p) == [q \in Pins |-> IF q = p THEN [pd[q] EXCEPT !.intr_en = FALSE] ELSE pd[q]]

\* C18: gpio_enable_isr and gpio_disable_isr on an input pin change nothing
\* but the interrupt enable of that pin: the objects (mode, handler, handler
\* argument), the handlers registered with the ISR service, the installed
\* flag and service, and the direction, trigger, pull-up and level of every
\* pin stay as they were.
C18_MaskFrame ==
  [][\A o \in Objs :
       (/\ gpio[o]._mode = GPIO_MODE_INPUT
        /\ \E t \in Tasks : gpio_enable_isr(t, o) \/ gpio_disable_isr(t, o))
         => (/\ gpio' = gpio
             /\ isr_func' = isr_func
             /\ isr_service_installed' = isr_service_installed
             /\ service' = service
             /\ PadsButMask(pad', gpio[o].pin) = PadsButMask(pad, gpio[o].pin))]_vars

\* gpio_enable_isr has returned on an input pin that had been masked and has
\* a handler registered, and the registration is still there.
C18_Witness ==
  \E o \in Objs :
    /\ CallbackPin(o)
    /\ ret = Returned("gpio_enable_isr", o, ESP_OK)
    /\ isr_func[gpio[o].pin].fn = gpio[o].isr_handler
    /\ Armed(gpio[o].pin)
    /\ Len(edges) = 2 /\ edges[1].fn = NULL /\ edges[1].pin = gpio[o].pin
    /\ edges[2] = [pin |-> gpio[o].pin, fn |-> gpio[o].isr_handler, arg |-> NULL]

\* C19: whenever gpio_init_impl calls gpio_isr_handler_add, the ISR service
\* is installed already, the first configuration of an input pin with a
\* handler included: the install comes before the registration.
C19_InstallPrecedesRegistration ==
  [][\A t \in Tasks : IsrHandlerAdd(t) => service]_vars

\* C20: when calls of gpio_init_impl on different objects interleave, every
\* gpio_config, gpio_isr_handler_add and initial gpio_write a call makes uses
\* the pin, mode, handler and initial state of the object the call was given.
C20_OwnObjectOnly ==
  [][\A t \in Tasks :
       LET own == gpio[self[t]] IN
       /\ ConfigInput(t) => (arg_pin[t] = own.pin /\ own._mode = GPIO_MODE_INPUT)
       /\ ConfigOutput(t) => (arg_pin[t] = own.pin /\ own._mode = GPIO_MODE_OUTPUT)
       /\ IsrHandlerAdd(t) => (arg_pin[t] = own.pin /\ arg_handler[t] = own.isr_handler)
       /\ InitialWrite(t) => (/\ gpio[s_gpio_instance].pin = own.pin
                              /\ gpio[s_gpio_instance]._act_state = own._act_state)]_vars

====
